---- MODULE Spec2Model ----
(***************************************************************************)
(* A model of ast-tools: the import extractor and the recursive dependency *)
(* graph builder (src/src/analyze-imports.ts) and the path utilities       *)
(* (src/unnamed/part_000: readFileWithExtensions, getRealImportFilePath,   *)
(* getAppRootDir).  Paths and specifiers are JavaScript strings and are    *)
(* modelled as TLA+ strings; the string and path library functions the     *)
(* code calls are computed character by character.                         *)
(***************************************************************************)
EXTENDS Integers, Sequences, FiniteSets, TLC

VARIABLES
    fs,         \* analyze-imports: file path |-> its import declarations, or Broken
    filePath,   \* analyze-imports: the root path handed to analyzeDependencies
    filter,     \* analyze-imports: the filter callback handed to analyzeDependencies
    pc,         \* position of the running call
    graph,      \* analyze-imports: the `dependencies` object under construction
    stack,      \* analyze-imports: the active deepCollect invocations
    returned,   \* what the call handed back to its caller
    analyzed,   \* analyze-imports: every path passed to analyzeImports so far
    failed,     \* analyze-imports: an exception was raised inside the try block
    args,       \* part_000: the arguments and locals of the call under way
    disk,       \* part_000: the filesystem the call reads, path |-> "file" or "dir"
    cursor,     \* part_000: the loop index, or the directory being examined
    probed,     \* part_000: the candidate paths tried so far, in order
    steps       \* the number of steps the call under way has taken

vars == <<fs, filePath, filter, pc, graph, stack, returned, analyzed, failed,
          args, disk, cursor, probed, steps>>

depVars == <<fs, filePath, filter, graph, stack, analyzed, failed>>
utilVars == <<args, disk, cursor, probed>>

(***************************************************************************)
(* JavaScript String.prototype and Array helpers                           *)
(***************************************************************************)
startsWith(s, p) ==
    /\ Len(p) <= Len(s)
    /\ SubSeq(s, 1, Len(p)) = p

endsWith(s, p) ==
    /\ Len(p) <= Len(s)
    /\ SubSeq(s, Len(s) - Len(p) + 1, Len(s)) = p

\* s.indexOf(p): 0-based position of the first occurrence, -1 when absent.
indexOf(s, p) ==
    LET hits == {i \in 1..(Len(s) - Len(p) + 1) : SubSeq(s, i, i + Len(p) - 1) = p}
    IN  IF hits = {} THEN -1
        ELSE (CHOOSE i \in hits : \A j \in hits : i <= j) - 1

\* s.lastIndexOf(p): 0-based position of the last occurrence, -1 when absent.
lastIndexOf(s, p) ==
    LET hits == {i \in 1..(Len(s) - Len(p) + 1) : SubSeq(s, i, i + Len(p) - 1) = p}
    IN  IF hits = {} THEN -1
        ELSE (CHOOSE i \in hits : \A j \in hits : i >= j) - 1

includes(s, p) == indexOf(s, p) > -1

\* s.slice(k) for 0 <= k.
sliceFrom(s, k) == SubSeq(s, k + 1, Len(s))

\* s.replace(p, t) with a string pattern: the first occurrence only.
replaceFirst(s, p, t) ==
    LET k == indexOf(s, p)
    IN  IF k = -1 THEN s
        ELSE SubSeq(s, 1, k) \o t \o SubSeq(s, k + Len(p) + 1, Len(s))

arrayIncludes(xs, x) == \E i \in 1..Len(xs) : xs[i] = x

RECURSIVE SplitSlash(_)
\* s.split('/')
SplitSlash(s) ==
    LET k == indexOf(s, "/")
    IN  IF k = -1 THEN <<s>>
        ELSE <<SubSeq(s, 1, k)>> \o SplitSlash(sliceFrom(s, k + 1))

RECURSIVE JoinSlash(_)
JoinSlash(segs) ==
    IF segs = <<>> THEN ""
    ELSE "/" \o Head(segs) \o JoinSlash(Tail(segs))

(***************************************************************************)
(* Node's path module (posix)                                              *)
(***************************************************************************)
Cwd == "/w"

RECURSIVE NormalizeSegs(_, _)
\* Walks the segments left to right: '' and '.' are dropped, '..' removes
\* the segment before it (nothing is above the root).
NormalizeSegs(segs, acc) ==
    IF segs = <<>> THEN acc
    ELSE LET h == Head(segs)
         IN  IF h = "" \/ h = "." THEN NormalizeSegs(Tail(segs), acc)
             ELSE IF h = ".."
                  THEN NormalizeSegs(Tail(segs),
                           IF acc = <<>> THEN acc ELSE SubSeq(acc, 1, Len(acc) - 1))
                  ELSE NormalizeSegs(Tail(segs), Append(acc, h))

RECURSIVE ResolveFrom(_, _)
\* The right-most absolute argument restarts the path; the others are appended.
ResolveFrom(parts, acc) ==
    IF parts = <<>> THEN acc
    ELSE LET p == Head(parts)
         IN  ResolveFrom(Tail(parts),
                 IF startsWith(p, "/") THEN SplitSlash(p) ELSE acc \o SplitSlash(p))

\* path.resolve(...parts)
resolve(parts) ==
    LET segs == NormalizeSegs(ResolveFrom(parts, SplitSlash(Cwd)), <<>>)
    IN  IF segs = <<>> THEN "/" ELSE JoinSlash(segs)

\* path.dirname(p) for the paths the code passes (no trailing slash)
dirname(p) ==
    LET k == lastIndexOf(p, "/")
    IN  IF k = -1 THEN "."
        ELSE IF k = 0 THEN "/"
        ELSE SubSeq(p, 1, k)

isRelative(p) == startsWith(p, ".") \/ startsWith(p, "..")

(***************************************************************************)
(* The filesystem analyzeDependencies runs against.  The directory layout  *)
(* is fixed; what each source file imports is chosen by Init.              *)
(***************************************************************************)
\* directory |-> fs.readdirSync(directory)
DirEntries ==
    [p \in {"/d", "/d/lib"} |->
        IF p = "/d" THEN <<"A.ts", "B.ts", "c.json", "lib">> ELSE <<"index.ts">>]

SourceFiles == {"/d/A.ts", "/d/B.ts", "/d/lib/index.ts"}

\* fs.lstatSync(p).isDirectory(), false when lstat throws
isDirectory(p) == p \in DOMAIN DirEntries

existsSync(files, p) == p \in DOMAIN files \/ p = "/d/c.json" \/ isDirectory(p)

extensions == <<".js", ".jsx", ".ts", ".tsx">>

\* The file transformToAST settles on ('' when there is none).
RealPath(files, path) ==
    IF isDirectory(path)
    THEN LET items == DirEntries[path]
             hits == {i \in 1..Len(items) :
                         /\ ~isDirectory(resolve(<<path, items[i]>>))
                         /\ includes(items[i], "index")
                         /\ lastIndexOf(items[i], ".") > -1
                         /\ arrayIncludes(extensions,
                                sliceFrom(items[i], lastIndexOf(items[i], ".")))}
         IN  \* forEach overwrites realPath: the last qualifying entry stays
             IF hits = {} THEN ""
             ELSE resolve(<<path, items[CHOOSE i \in hits : \A j \in hits : i >= j]>>)
    ELSE LET fileName == sliceFrom(path, lastIndexOf(path, "/") + 1)
             suffix == IF lastIndexOf(fileName, ".") > -1
                       THEN sliceFrom(fileName, lastIndexOf(fileName, "."))
                       ELSE ""
             pathes == <<path>> \o [i \in 1..Len(extensions) |-> path \o extensions[i]]
             found == {i \in 1..Len(pathes) : existsSync(files, pathes[i])}
         IN  IF suffix # "" /\ arrayIncludes(extensions, suffix) THEN path
             ELSE IF suffix = "" /\ found # {}
                  THEN pathes[CHOOSE i \in found : \A j \in found : i <= j]
             ELSE ""

\* transformToAST: the import declarations of the parsed file, in source
\* order; <<>> stands for null (no real path, unreadable, empty or
\* unparseable file: the catch returns null).
transformToAST(files, path) ==
    LET realPath == RealPath(files, path)
    IN  IF realPath = "" THEN <<>>
        ELSE IF realPath \notin DOMAIN files THEN <<>>
        ELSE IF ~files[realPath].ok THEN <<>>
        ELSE files[realPath].imports

\* The caller's filter callback: "true", "false" or "throw".
FilterCall(flt, source) ==
    IF flt = "noLodash" THEN (IF source = "lodash" THEN "false" ELSE "true")
    ELSE IF flt = "throwing" THEN (IF source = "lodash" THEN "throw" ELSE "true")
    ELSE "true"

\* result[key] = value on a JavaScript object: a new key goes last, an
\* existing key keeps its place.
Put(map, entry) ==
    IF \E i \in 1..Len(map) : map[i].key = entry.key
    THEN [i \in 1..Len(map) |-> IF map[i].key = entry.key THEN entry ELSE map[i]]
    ELSE Append(map, entry)

\* Mutant of AbsoluteSource: the filter's verdict is ignored.
AbsoluteSource_FilterIgnored(path, source, flt) ==
    IF isRelative(source)
    THEN IF isDirectory(path) THEN resolve(<<path, source>>)
         ELSE resolve(<<dirname(path), source>>)
    ELSE source

\* absoluteSource of one import declaration ('' when it is left undefined)
AbsoluteSource(path, source, flt) ==
    IF isRelative(source)
    THEN IF isDirectory(path) THEN resolve(<<path, source>>)
         ELSE resolve(<<dirname(path), source>>)
    ELSE IF flt = "none" \/ FilterCall(flt, source) = "true" THEN source
    ELSE ""

RECURSIVE Visit(_, _, _, _)
\* traverse(ast, {...}): the three visitors treat the source alike.
Visit(decls, path, flt, acc) ==
    IF decls = <<>> THEN [threw |-> FALSE, map |-> acc]
    ELSE LET d == Head(decls)
         IN  IF ~isRelative(d.source) /\ flt # "none"
                 /\ FilterCall(flt, d.source) = "throw"
             THEN [threw |-> TRUE, map |-> <<>>]
             ELSE LET abs == AbsoluteSource(path, d.source, flt)
                  IN  Visit(Tail(decls), path, flt,
                          IF abs # ""
                          THEN Put(acc, [key |-> d.local, id |-> abs, source |-> d.source])
                          ELSE acc)

\* analyzeImports(filePath, filter): [threw, map]
analyzeImports(files, path, flt) == Visit(transformToAST(files, path), path, flt, <<>>)

(***************************************************************************)
(* analyzeDependencies as a state machine: one step per forEach iteration  *)
(* of deepCollect, the recursion kept as an explicit stack of invocations. *)
(***************************************************************************)
MaxImports == 3

Locals == <<"x", "y", "z", "u", "v">>

\* Every list of n import declarations over `sources`, with distinct local
\* names (a module that binds a name twice is rejected by the parser).
DeclLists(sources, n) ==
    {[i \in 1..n |-> [local |-> Locals[i], source |-> f[i]]] : f \in [1..n -> sources]}

Keys(map) == [i \in 1..Len(map) |-> map[i].key]

Children(g, p) ==
    {q \in DOMAIN g : Len(q) = Len(p) + 1 /\ SubSeq(q, 1, Len(p)) = p}

NoGraph == [q \in {} |-> [id |-> "", source |-> "", hasDeps |-> FALSE]]

\* The nodes of `map` placed under the node at path p.
Attach(p, map) ==
    [q \in {Append(p, map[i].key) : i \in 1..Len(map)} |->
        LET e == map[CHOOSE i \in 1..Len(map) : Append(p, map[i].key) = q]
        IN  [id |-> e.id, source |-> e.source, hasDeps |-> FALSE]]

\* What the three source files may import.  At most MaxImports import
\* declarations in all; B.ts may also be unreadable or unparseable.
SourcesA == {"./B", "./lib", "./c.json", "lodash"}
SourcesB == {"./A", "./lib", "./c.json", "lodash"}
SourcesLib == {"../A.ts", "../B", "../lib"}

InitDeps ==
    /\ \E na \in 0..MaxImports, nb \in 0..MaxImports, nl \in 0..1 :
        /\ na + nb + nl <= MaxImports
        /\ \E da \in DeclLists(SourcesA, na), db \in DeclLists(SourcesB, nb),
              dl \in DeclLists(SourcesLib, nl), okB \in BOOLEAN :
            /\ okB \/ nb = 0
            /\ fs = [f \in SourceFiles |->
                        IF f = "/d/A.ts" THEN [ok |-> TRUE, imports |-> da]
                        ELSE IF f = "/d/B.ts" THEN [ok |-> okB, imports |-> db]
                        ELSE [ok |-> TRUE, imports |-> dl]]
    /\ filePath \in {"/d/A", "/d/A.ts"}
    /\ filter \in {"none", "noLodash", "throwing"}
    /\ pc = "start"
    /\ graph = NoGraph
    /\ stack = <<>>
    /\ returned = "pending"
    /\ analyzed = {}
    /\ failed = FALSE
    /\ args = <<>>
    /\ disk = <<>>
    /\ cursor = 0
    /\ probed = <<>>
    /\ steps = 0

\* Mutant of CatchResult: the exception escapes to the caller.
CatchRethrows == "thrown"

\* The catch of lines 210-213: the exception is logged and {} is returned.
CatchResult == "empty"

\* lines 182-184 and 207: the root extraction and the first deepCollect call;
\* an exception lands in the catch, which returns {}.
AnalyzeDependencies ==
    /\ pc = "start"
    /\ LET r == analyzeImports(fs, filePath, filter)
       IN  /\ analyzed' = analyzed \cup {filePath}
           /\ IF r.threw
              THEN /\ failed' = TRUE
                   /\ pc' = "done"
                   /\ returned' = CatchResult
                   /\ UNCHANGED <<graph, stack>>
              ELSE /\ graph' = Attach(<<>>, r.map)
                   /\ stack' = <<[owner |-> <<>>, keys |-> Keys(r.map),
                                  parentIds |-> <<filePath>>]>>
                   /\ pc' = "collect"
                   /\ UNCHANGED <<failed, returned>>
    /\ UNCHANGED <<fs, filePath, filter>>
    /\ steps' = steps + 1
    /\ UNCHANGED utilVars

\* Mutant of GuardPasses: the newest ancestor, the file that holds the
\* import being visited, is not looked at.
GuardPasses_SkipsLast(innerDeps, parentIds) ==
    ~\E i \in 1..Len(innerDeps) :
        arrayIncludes(SubSeq(parentIds, 1, Len(parentIds) - 1), innerDeps[i].id)

\* The cycle guard of line 199.
GuardPasses(innerDeps, parentIds) ==
    ~\E i \in 1..Len(innerDeps) : arrayIncludes(parentIds, innerDeps[i].id)

\* Mutant of Expandable: the '.json' test is missing.
Expandable_NoJsonTest(dep) == isRelative(dep.source)

\* The test of line 193.
Expandable(dep) == isRelative(dep.source) /\ ~endsWith(dep.id, ".json")

\* Mutant of NextParentIds: the list is passed on as it is.
NextParentIds_NotExtended(parentIds, dep) == parentIds

\* The ancestor list the nested deepCollect call receives (line 201).
NextParentIds(parentIds, dep) == Append(parentIds, dep.id)

\* One iteration of the forEach of lines 190-204.
DeepCollectVisit ==
    /\ pc = "collect"
    /\ stack # <<>>
    /\ LET top == stack[Len(stack)]
           below == SubSeq(stack, 1, Len(stack) - 1)
       IN  /\ top.keys # <<>>
           /\ LET p == Append(top.owner, Head(top.keys))
                  dep == graph[p]
                  rest == Append(below, [top EXCEPT !.keys = Tail(top.keys)])
              IN  IF Expandable(dep)
                  THEN LET r == analyzeImports(fs, dep.id, filter)
                       IN  /\ analyzed' = analyzed \cup {dep.id}
                           /\ IF r.threw
                              THEN /\ failed' = TRUE
                                   /\ pc' = "done"
                                   /\ returned' = CatchResult
                                   /\ UNCHANGED <<graph, stack>>
                              ELSE IF GuardPasses(r.map, top.parentIds)
                              THEN /\ graph' = [graph EXCEPT ![p].hasDeps = TRUE]
                                                  @@ Attach(p, r.map)
                                   /\ stack' = Append(rest,
                                          [owner |-> p, keys |-> Keys(r.map),
                                           parentIds |-> NextParentIds(top.parentIds, dep)])
                                   /\ UNCHANGED <<pc, returned, failed>>
                              ELSE /\ stack' = rest
                                   /\ UNCHANGED <<graph, pc, returned, failed>>
                  ELSE /\ stack' = rest
                       /\ UNCHANGED <<graph, pc, returned, failed, analyzed>>
    /\ UNCHANGED <<fs, filePath, filter>>
    /\ steps' = steps + 1
    /\ UNCHANGED utilVars

\* deepCollect has run through its keys (or got an empty mapping) and returns.
DeepCollectReturn ==
    /\ pc = "collect"
    /\ stack # <<>>
    /\ stack[Len(stack)].keys = <<>>
    /\ stack' = SubSeq(stack, 1, Len(stack) - 1)
    /\ UNCHANGED <<fs, filePath, filter, pc, graph, returned, analyzed, failed>>
    /\ steps' = steps + 1
    /\ UNCHANGED utilVars

\* line 209: return dependencies
ReturnDependencies ==
    /\ pc = "collect"
    /\ stack = <<>>
    /\ pc' = "done"
    /\ returned' = "graph"
    /\ UNCHANGED <<fs, filePath, filter, graph, stack, analyzed, failed>>
    /\ steps' = steps + 1
    /\ UNCHANGED utilVars

NextDeps ==
    \/ AnalyzeDependencies
    \/ DeepCollectVisit
    \/ DeepCollectReturn
    \/ ReturnDependencies

SpecDeps == InitDeps /\ [][NextDeps]_vars

\* The mapping the caller receives.
Result == IF returned = "graph" THEN graph ELSE NoGraph

(***************************************************************************)
(* Properties of analyzeDependencies                                       *)
(***************************************************************************)
\* The source file a path or id stands for ('' when none).
FileOf(id) == RealPath(fs, id)

Finished == pc = "done" /\ ~failed

\* ids of the nodes on the way from the root mapping down to the node at q
IdsAlong(q) == [i \in 1..Len(q) |-> graph[SubSeq(q, 1, i)].id]

HasRelativeImportOf(file, target) ==
    /\ fs[file].ok
    /\ \E i \in 1..Len(fs[file].imports) :
          LET src == fs[file].imports[i].source
          IN  /\ isRelative(src)
              /\ RealPath(fs, resolve(<<dirname(file), src>>)) = target

MutualCycle ==
    /\ FileOf(filePath) = "/d/A.ts"
    /\ HasRelativeImportOf("/d/A.ts", "/d/B.ts")
    /\ HasRelativeImportOf("/d/B.ts", "/d/A.ts")

\* C1: when A imports B and B imports A (both relative) and the graph is
\* built from A, in whatever form A's path is given, the returned graph
\* holds a node for B that carries no `dependencies`.
C1_MutualCycleLeavesB ==
    (Finished /\ MutualCycle) =>
        \E q \in DOMAIN Result :
            FileOf(Result[q].id) = "/d/B.ts" /\ ~Result[q].hasDeps

\* C2: analyzeDependencies never throws to its caller; once any step has
\* raised an exception the caller gets the empty mapping, never the partly
\* built graph; an unreadable or unparseable file raises nothing and only
\* gives that file an empty mapping.
C2_NeverThrows ==
    /\ returned # "thrown"
    /\ pc = "done" =>
        /\ failed => (returned = "empty" /\ Result = NoGraph)
        /\ failed <=> (filter = "throwing" /\
                         \E f \in analyzed :
                            \E i \in 1..Len(transformToAST(fs, f)) :
                               transformToAST(fs, f)[i].source = "lodash")
        /\ ~failed => returned = "graph"
        /\ \A q \in DOMAIN Result :
              (Expandable(Result[q]) /\ FileOf(Result[q].id) = "/d/B.ts"
                    /\ ~fs["/d/B.ts"].ok)
                 => (Result[q].hasDeps /\ Children(Result, q) = {})

\* a failure below the root: part of the graph was built and then dropped
C2_Witness ==
    /\ pc = "done"
    /\ failed
    /\ DOMAIN graph # {}
    /\ returned = "empty"

\* The mapping owners of the returned graph: the root and every expanded node.
Owners == {<<>>} \cup {q \in DOMAIN Result : Result[q].hasDeps}

OwnerPath(p) == IF p = <<>> THEN filePath ELSE Result[p].id

FilterAccepts(source) ==
    \/ filter = "none"
    \/ filter = "noLodash" /\ source # "lodash"
    \/ filter = "throwing" /\ source # "lodash"

\* C3: at every level of a returned graph a relative import of the file is
\* in the mapping with an absolute id whatever the filter says, a bare import
\* is in it iff there is no filter or the filter accepts its specifier, and a
\* visited relative non-JSON target without imports has `dependencies` equal
\* to the empty mapping.
C3_FilterBehaviour ==
    Finished =>
        /\ \A p \in Owners :
              LET decls == transformToAST(fs, OwnerPath(p))
              IN  \A i \in 1..Len(decls) :
                     LET q == Append(p, decls[i].local)
                     IN  IF isRelative(decls[i].source)
                         THEN /\ q \in DOMAIN Result
                              /\ Result[q].source = decls[i].source
                              /\ startsWith(Result[q].id, "/")
                         ELSE (q \in DOMAIN Result) <=> FilterAccepts(decls[i].source)
        /\ \A q \in DOMAIN Result :
              (Expandable(Result[q]) /\ transformToAST(fs, Result[q].id) = <<>>)
                 => (Result[q].hasDeps /\ Children(Result, q) = {})

\* below the root: a rejected bare import is absent, and a file without
\* imports was visited
C3_Witness ==
    /\ Finished
    /\ filter = "noLodash"
    /\ \E p \in Owners :
          /\ p # <<>>
          /\ \E i \in 1..Len(transformToAST(fs, OwnerPath(p))) :
                /\ transformToAST(fs, OwnerPath(p))[i].source = "lodash"
                /\ Append(p, transformToAST(fs, OwnerPath(p))[i].local) \notin DOMAIN Result
    /\ \E q \in DOMAIN Result :
          /\ Expandable(Result[q])
          /\ FileOf(Result[q].id) # ""
          /\ transformToAST(fs, Result[q].id) = <<>>
          /\ Result[q].hasDeps

\* C4: at every depth a node with a relative source and an id ending in
\* '.json' has no `dependencies`, and its id is never handed to analyzeImports.
C4_JsonIsLeaf ==
    \A q \in DOMAIN graph :
        (isRelative(graph[q].source) /\ endsWith(graph[q].id, ".json"))
            => (~graph[q].hasDeps /\ graph[q].id \notin analyzed)

C4_Witness ==
    /\ Finished
    /\ \E q \in DOMAIN Result :
          /\ Len(q) >= 2
          /\ isRelative(Result[q].source)
          /\ endsWith(Result[q].id, ".json")

\* C9: in a returned graph a node N has `dependencies` iff its source is
\* relative, its id does not end in '.json' and no id in the direct import
\* mapping of N's target equals the root path or the id of a node between
\* the root and N's parent (N's own id is not compared); the dependencies
\* are then exactly that mapping; and every nested deepCollect call runs
\* with the root path followed by the ids down to and including its owner.
C9_CycleGuardRule ==
    /\ pc = "collect" =>
          \A k \in 1..Len(stack) :
             stack[k].parentIds = <<filePath>> \o IdsAlong(stack[k].owner)
    /\ Finished =>
          \A q \in DOMAIN Result :
             LET n == Result[q]
                 direct == analyzeImports(fs, n.id, filter).map
                 above == {filePath} \cup
                          {Result[SubSeq(q, 1, i)].id : i \in 1..(Len(q) - 1)}
             IN  /\ n.hasDeps <=>
                       /\ isRelative(n.source)
                       /\ ~endsWith(n.id, ".json")
                       /\ \A i \in 1..Len(direct) : direct[i].id \notin above
                 /\ n.hasDeps =>
                       /\ Children(Result, q)
                             = {Append(q, direct[i].key) : i \in 1..Len(direct)}
                       /\ \A i \in 1..Len(direct) :
                             /\ Result[Append(q, direct[i].key)].id = direct[i].id
                             /\ Result[Append(q, direct[i].key)].source = direct[i].source
                 /\ ~n.hasDeps => Children(Result, q) = {}

\* a node cut off by the guard although its own id is not among its
\* ancestors, next to an expanded node two levels down
C9_Witness ==
    /\ Finished
    /\ \E q \in DOMAIN Result :
          /\ Expandable(Result[q])
          /\ ~Result[q].hasDeps
          /\ Result[q].id # filePath
          /\ \A i \in 1..(Len(q) - 1) : Result[SubSeq(q, 1, i)].id # Result[q].id
    /\ \E q \in DOMAIN Result : Len(q) >= 2 /\ Result[q].hasDeps

NoDuplicates(xs) == \A i, j \in 1..Len(xs) : xs[i] = xs[j] => i = j

\* Every id an import declaration of the three files can yield.
ImportIds ==
    UNION {{AbsoluteSource(IF f = "/d/lib/index.ts" THEN "/d/lib" ELSE f,
                           fs[f].imports[i].source, "none") :
               i \in 1..Len(fs[f].imports)} : f \in SourceFiles}

MostImports ==
    CHOOSE n \in 0..MaxImports :
        /\ \A f \in SourceFiles : Len(fs[f].imports) <= n
        /\ \E f \in SourceFiles : Len(fs[f].imports) = n

\* The guards of the four steps: some step can be taken.
CanStep ==
    \/ pc = "start"
    \/ /\ pc = "collect"
       /\ \/ stack = <<>>
          \/ stack[Len(stack)].keys = <<>>
          \/ Append(stack[Len(stack)].owner, Head(stack[Len(stack)].keys))
                 \in DOMAIN graph

RECURSIVE TreeSize(_, _)
\* the number of nodes of the full tree of the given branching and depth
TreeSize(branching, depth) ==
    IF depth = 0 THEN 0 ELSE branching * (1 + TreeSize(branching, depth - 1))

\* C10: no deepCollect invocation ever runs with an ancestor list that holds
\* an id twice, the number of nested invocations never exceeds one plus the
\* number of distinct import ids, and analyzeDependencies always returns:
\* it is never stuck and takes no more steps than a tree of that depth has
\* nodes to visit and mappings to leave.
C10_AncestorsDistinct ==
    /\ \A k \in 1..Len(stack) : NoDuplicates(stack[k].parentIds)
    /\ Len(stack) <= 1 + Cardinality(ImportIds)
    /\ steps <= 3 + 2 * TreeSize(MostImports, 1 + Cardinality(ImportIds))
    /\ pc # "done" => CanStep

\* a cycle of three files, followed until the root file shows up again
C10_Witness ==
    /\ pc = "collect"
    /\ Len(stack) >= 3
    /\ \E q \in DOMAIN graph : Len(q) = 3 /\ FileOf(graph[q].id) = FileOf(filePath)

(***************************************************************************)
(* part_000: readFileWithExtensions, one step per iteration of its loop    *)
(***************************************************************************)
\* The variables of analyzeDependencies, unused by the path utilities.
IdleDeps ==
    /\ fs = <<>>
    /\ filePath = ""
    /\ filter = "none"
    /\ graph = NoGraph
    /\ stack = <<>>
    /\ analyzed = {}
    /\ failed = FALSE

\* The default value of the `extensions` parameter (lines 13 and 40).
DefaultExtensions == <<".js", ".jsx", ".ts", ".tsx", ".json", "txt">>

\* Every filesystem that holds some of `paths`, each as a file or a directory.
Disks(paths) ==
    UNION {[sub -> {"file", "dir"}] : sub \in SUBSET paths}

\* lines 16-18 and 43-45: the path tried for one extension
Candidate(base, ext) == IF includes(base, ext) THEN base ELSE base \o ext

ReadPaths ==
    {"/p/n.js", "/p/n.ts", "/p/n.txt", "/p/ntxt", "/p/a.ts", "/p/a.ts.js"}

InitRead ==
    /\ IdleDeps
    /\ args \in [base : {"/p/n", "/p/a.ts"},
                 extensions : {DefaultExtensions, <<".ts", ".js">>}]
    /\ disk \in Disks(ReadPaths)
    /\ pc = "loop"
    /\ cursor = 1
    /\ probed = <<>>
    /\ returned = "pending"
    /\ steps = 0

\* One iteration of the loop of lines 15-27: fs.readFileSync of the candidate
\* returns its contents, fails with ENOENT (next extension) or fails
\* otherwise (EISDIR for a directory), which is thrown on.
ReadTry ==
    /\ pc = "loop"
    /\ cursor <= Len(args.extensions)
    /\ LET path == Candidate(args.base, args.extensions[cursor])
       IN  /\ probed' = Append(probed, path)
           /\ IF path \notin DOMAIN disk
              THEN /\ cursor' = cursor + 1
                   /\ UNCHANGED <<pc, returned>>
              ELSE /\ pc' = "done"
                   /\ returned' = IF disk[path] = "file"
                                  THEN "contents of " \o path
                                  ELSE "EISDIR"
                   /\ UNCHANGED cursor
    /\ steps' = steps + 1
    /\ UNCHANGED <<args, disk>>
    /\ UNCHANGED depVars

\* line 28: no candidate was there
ReadNotFound ==
    /\ pc = "loop"
    /\ cursor > Len(args.extensions)
    /\ pc' = "done"
    /\ returned' = "No file found with the given extensions.(" \o args.base \o ")"
    /\ steps' = steps + 1
    /\ UNCHANGED <<args, disk, cursor, probed>>
    /\ UNCHANGED depVars

NextRead == ReadTry \/ ReadNotFound

SpecRead == InitRead /\ [][NextRead]_vars

\* The default list as the documentation gives it.
DocumentedExtensions == <<".js", ".jsx", ".ts", ".tsx", ".json", ".txt">>

\* C6: the candidates are tried in list order and the contents of the first
\* one that exists are returned, a not-found error naming the base path is
\* thrown when none exists, and with the default list the candidates are the
\* base followed by '.js', '.jsx', '.ts', '.tsx', '.json', '.txt', so that a
\* base whose only file is base + '.txt' is read.
C6_FirstExistingCandidate ==
    (pc = "done" /\ \A p \in DOMAIN disk : disk[p] = "file") =>
        LET exts == IF args.extensions = DefaultExtensions
                    THEN DocumentedExtensions ELSE args.extensions
            there == {i \in 1..Len(exts) : Candidate(args.base, exts[i]) \in DOMAIN disk}
        IN  IF there = {}
            THEN returned = "No file found with the given extensions.("
                                \o args.base \o ")"
            ELSE returned = "contents of " \o
                    Candidate(args.base, exts[CHOOSE i \in there : \A j \in there : i <= j])

(***************************************************************************)
(* part_000: getRealImportFilePath, then existFileWithExtensions one step  *)
(* per awaited fs.access                                                   *)
(***************************************************************************)
MaxAliases == 2

AliasKeys == {"@/", "@/x/", "@utils/"}
AliasTargets == {"app/", "src/utils/"}

\* Every alias object literal of at most `most` properties, in the order
\* the caller wrote them.
AliasTables(most) ==
    UNION {{t \in [1..n -> [key : AliasKeys, target : AliasTargets]] :
               \A i, j \in 1..n : t[i].key = t[j].key => i = j} : n \in 0..most}

RECURSIVE Spread(_, _)
\* {...obj, ...more}: the properties of `more` are assigned in their order.
Spread(obj, more) ==
    IF more = <<>> THEN obj ELSE Spread(Put(obj, Head(more)), Tail(more))

\* Mutant of EnableAlias: the default is spread over the caller's table.
EnableAlias_DefaultLast(importAlias) ==
    Spread(importAlias, <<[key |-> "@/", target |-> "src/"]>>)

\* lines 140-143
EnableAlias(importAlias) ==
    Spread(<<[key |-> "@/", target |-> "src/"]>>, importAlias)

RECURSIVE ApplyAliases(_, _, _, _)
\* lines 144-148: every matching alias overwrites realPath in turn
ApplyAliases(entries, rootDir, importPath, realPath) ==
    IF entries = <<>> THEN realPath
    ELSE ApplyAliases(Tail(entries), rootDir, importPath,
             IF startsWith(importPath, Head(entries).key)
             THEN resolve(<<rootDir,
                            replaceFirst(importPath, Head(entries).key,
                                         Head(entries).target)>>)
             ELSE realPath)

\* Mutant of RelativeRealPath: one directory further up.
RelativeRealPath_TwoUp(fileDir, importPath) ==
    resolve(<<fileDir, "..", "..", importPath>>)

\* line 133
RelativeRealPath(fileDir, importPath) == resolve(<<fileDir, "..", importPath>>)

\* lines 126-149: realPath before the directory step
RealImportPath(rootDir, fileDir, importPath, importAlias) ==
    IF includes(fileDir, "config/config") /\ ~startsWith(importPath, "@")
    THEN resolve(<<rootDir, "src/pages", importPath>>)
    ELSE IF isRelative(importPath)
    THEN RelativeRealPath(fileDir, importPath)
    ELSE ApplyAliases(EnableAlias(importAlias), rootDir, importPath,
             IF startsWith(importPath, "src")
             THEN resolve(<<rootDir, importPath>>)
             ELSE resolve(<<rootDir, "src", importPath>>))

\* isDirectory (lines 160-166) on the filesystem of the path utilities
DiskIsDirectory(d, p) == p \in DOMAIN d /\ d[p] = "dir"

InitResolve ==
    /\ IdleDeps
    /\ \E fileDir \in {"/r/src/a/f.ts", "/r/config/config.ts"},
          importPath \in {"./x", "../x", "@/x/foo", "@utils/foo", "src/x", "x"},
          importAlias \in AliasTables(MaxAliases) :
          args = [rootDir |-> "/r", fileDir |-> fileDir, importPath |-> importPath,
                  importAlias |-> importAlias, realPath |-> "", base |-> ""]
    /\ disk \in Disks({"/r/src/a/x", "/r/src/a/x.ts", "/r/src/utils/foo.ts"})
    /\ pc = "resolve"
    /\ cursor = 0
    /\ probed = <<>>
    /\ returned = "pending"
    /\ steps = 0

\* lines 126-157 up to the first await: realPath is settled, a directory
\* gets 'index' appended, and existFileWithExtensions starts on the result.
GetRealImportFilePath ==
    /\ pc = "resolve"
    /\ LET realPath == RealImportPath(args.rootDir, args.fileDir, args.importPath,
                                      args.importAlias)
           base == IF DiskIsDirectory(disk, realPath)
                   THEN resolve(<<realPath, "index">>) ELSE realPath
       IN  args' = [args EXCEPT !.realPath = realPath, !.base = resolve(<<base>>)]
    /\ pc' = "probe"
    /\ cursor' = 1
    /\ steps' = steps + 1
    /\ UNCHANGED <<disk, probed, returned>>
    /\ UNCHANGED depVars

\* One iteration of the loop of lines 42-55: fs.access succeeds for
\* whatever is at the path.
ExistTry ==
    /\ pc = "probe"
    /\ cursor <= Len(DefaultExtensions)
    /\ LET path == Candidate(args.base, DefaultExtensions[cursor])
       IN  /\ probed' = Append(probed, path)
           /\ IF path \in DOMAIN disk
              THEN /\ pc' = "done"
                   /\ returned' = path
                   /\ UNCHANGED cursor
              ELSE /\ cursor' = cursor + 1
                   /\ UNCHANGED <<pc, returned>>
    /\ steps' = steps + 1
    /\ UNCHANGED <<args, disk>>
    /\ UNCHANGED depVars

\* line 56
ExistNone ==
    /\ pc = "probe"
    /\ cursor > Len(DefaultExtensions)
    /\ pc' = "done"
    /\ returned' = ""
    /\ steps' = steps + 1
    /\ UNCHANGED <<args, disk, cursor, probed>>
    /\ UNCHANGED depVars

NextResolve == GetRealImportFilePath \/ ExistTry \/ ExistNone

SpecResolve == InitResolve /\ [][NextResolve]_vars

(***************************************************************************)
(* Properties of getRealImportFilePath                                     *)
(***************************************************************************)
IsConfigCall ==
    includes(args.fileDir, "config/config") /\ ~startsWith(args.importPath, "@")

BareCall == ~IsConfigCall /\ ~isRelative(args.importPath)

\* rootDir/src/importPath, or rootDir/importPath for a specifier under src
BarePath ==
    IF startsWith(args.importPath, "src")
    THEN args.rootDir \o "/" \o args.importPath
    ELSE args.rootDir \o "/src/" \o args.importPath

\* The path the last entry of `table` that matches the specifier gives:
\* the matched prefix replaced by the target, under rootDir.
LastMatchPath(table) ==
    LET hits == {i \in 1..Len(table) : startsWith(args.importPath, table[i].key)}
        last == CHOOSE i \in hits : \A j \in hits : i >= j
    IN  IF hits = {} THEN BarePath
        ELSE args.rootDir \o "/" \o table[last].target
                 \o sliceFrom(args.importPath, Len(table[last].key))

\* The aliases in the order they were declared: the default, then the
\* caller's as written.
DeclaredAliases == <<[key |-> "@/", target |-> "src/"]>> \o args.importAlias

\* The merged table in the order its keys were first inserted: '@/' stays
\* first, with the caller's target when the caller names it again.
MergedAliases ==
    LET mine == {i \in 1..Len(args.importAlias) : args.importAlias[i].key = "@/"}
        others == SelectSeq(args.importAlias, LAMBDA e : e.key # "@/")
    IN  <<[key |-> "@/",
           target |-> IF mine = {} THEN "src/"
                      ELSE args.importAlias[CHOOSE i \in mine : TRUE].target]>>
            \o others

\* C5 as stated: among the matching aliases the one declared last decides,
\* also when the caller declares '@/' again after a longer alias.
C5_LastDeclaredAliasWins ==
    (pc # "resolve" /\ BareCall) => args.realPath = LastMatchPath(DeclaredAliases)

\* C5: for a bare specifier the alias table is the default {'@/': 'src/'}
\* with the caller's aliases merged over it; every alias whose key is a
\* prefix of the specifier rewrites the path, and among several matches the
\* last one in the merged table's insertion order decides, where a '@/'
\* declared again by the caller keeps the first place and so yields to any
\* longer alias that matches.
C5_LastMergedAliasWins ==
    (pc # "resolve" /\ BareCall) => args.realPath = LastMatchPath(MergedAliases)

\* two aliases match and the caller's '@/' changes the target of the default
C5_Witness ==
    /\ pc = "done"
    /\ BareCall
    /\ args.importPath = "@/x/foo"
    /\ \E i, j \in 1..Len(args.importAlias) :
          args.importAlias[i].key = "@/" /\ args.importAlias[j].key = "@/x/"
    /\ args.realPath = "/r/src/utils/foo"

RelativeCall == ~IsConfigCall /\ isRelative(args.importPath)

\* What is probed when the specifier resolves to `target`.
ProbesFrom(target) ==
    LET base == IF DiskIsDirectory(disk, target) THEN target \o "/index" ELSE target
    IN  /\ args.realPath = target
        /\ args.base = base
        /\ \A i \in 1..Len(probed) : probed[i] = base \o DefaultExtensions[i]

\* C7 as stated: a relative specifier is resolved against the directory one
\* level above the importing file's own directory.
C7_ResolvedOneLevelUp ==
    (pc # "resolve" /\ RelativeCall) =>
        ProbesFrom(resolve(<<dirname(dirname(args.fileDir)), args.importPath>>))

\* C7: when the importing file is not the routing configuration and the
\* specifier is relative, the path probed is the specifier resolved against
\* the importing file's own directory ('index' appended when that path is a
\* directory), the second argument being the importing file's absolute path.
C7_ResolvedAgainstOwnDirectory ==
    (pc # "resolve" /\ RelativeCall) =>
        ProbesFrom(resolve(<<dirname(args.fileDir), args.importPath>>))

C7_Witness ==
    /\ pc = "done"
    /\ RelativeCall
    /\ args.fileDir = "/r/src/a/f.ts"
    /\ args.importPath = "./x"
    /\ returned = "/r/src/a/x.ts"

(***************************************************************************)
(* part_000: getAppRootDir, one step per invocation of the recursion       *)
(***************************************************************************)
MaxDepth == 3

\* The frames the runtime's call stack holds; getAppRootDir calls itself in
\* a position that keeps the caller's frame.
StackLimit == 8

DirNames == <<"a", "b", "c", "d", "e">>

\* The directory k levels below the filesystem root.
DirAt(k) == IF k = 0 THEN "/" ELSE JoinSlash(SubSeq(DirNames, 1, k))

Listings == {<<"f.ts">>, <<"package.json", "f.ts">>, <<"package.json5", "f.ts">>}

\* Mutant of ParentPath: two directories up at a time.
ParentPath_TwoUp(p) == resolve(<<p, "../..">>)

\* line 178
ParentPath(p) == resolve(<<p, "..">>)

InitRoot ==
    /\ IdleDeps
    /\ \E k \in 0..MaxDepth :
          args = [routeConfigPath |-> resolve(<<DirAt(k), "f.ts">>)]
    /\ disk \in [{DirAt(k) : k \in 0..MaxDepth} -> Listings]
    /\ pc = "call"
    /\ cursor = args.routeConfigPath
    /\ probed = <<>>
    /\ returned = "pending"
    /\ steps = 0

\* lines 176-185: one invocation, on the path in `cursor`; it returns the
\* parent directory or calls itself on it.
GetAppRootDir ==
    /\ pc = "call"
    /\ steps < StackLimit
    /\ LET parentPath == ParentPath(cursor)
           files == disk[parentPath]
       IN  /\ probed' = Append(probed, parentPath)
           /\ IF \E i \in 1..Len(files) : files[i] = "package.json"
              THEN /\ pc' = "done"
                   /\ returned' = parentPath
                   /\ UNCHANGED cursor
              ELSE /\ cursor' = parentPath
                   /\ UNCHANGED <<pc, returned>>
    /\ steps' = steps + 1
    /\ UNCHANGED <<args, disk>>
    /\ UNCHANGED depVars

\* line 185 with the call stack full: the runtime throws a RangeError,
\* which nothing in getAppRootDir catches.
StackOverflow ==
    /\ pc = "call"
    /\ steps = StackLimit
    /\ pc' = "done"
    /\ returned' = "RangeError: Maximum call stack size exceeded"
    /\ UNCHANGED <<args, disk, cursor, probed, steps>>
    /\ UNCHANGED depVars

NextRoot == GetAppRootDir \/ StackOverflow

SpecRoot == InitRoot /\ [][NextRoot]_vars

(***************************************************************************)
(* Properties of getAppRootDir                                             *)
(***************************************************************************)
RECURSIVE Up(_, _)
\* the directory k levels above p
Up(p, k) == IF k = 0 THEN p ELSE Up(dirname(p), k - 1)

HasManifest(dir) == \E i \in 1..Len(disk[dir]) : disk[dir][i] = "package.json"

\* the number of directories between the start path and the root, root included
WalkLength == Len(SplitSlash(args.routeConfigPath)) - 1

ManifestOnWalk == \E k \in 1..WalkLength : HasManifest(Up(args.routeConfigPath, k))

IsDirectoryResult == returned \in DOMAIN disk

====
